---- MODULE Spec2Model ----
(***************************************************************************)
(* Model of the lodestone crate: the SearchBuilder (src/search.rs), the    *)
(* Domain codec (src/model/domain.rs) and the LightProfile / Profile       *)
(* decoders (src/model/profile.rs).                                        *)
(*                                                                         *)
(* Text is a sequence of one-character strings.  Option<T> is a sequence   *)
(* of length 0 (None) or 1 (Some).  Result<T, E> is a record with a field  *)
(* st in {"Ok", "Err", "Panic"}; "Panic" is a Rust panic unwinding out of  *)
(* the call (no value is returned to the caller).                          *)
(***************************************************************************)
EXTENDS Integers, Sequences, FiniteSets, TLC

VARIABLES
    criteria,   \* the SearchBuilder struct
    hist,       \* history: number of setter calls, the server/datacenter calls
    page,       \* the results page the site answers a search with: its entries
    site,       \* the pages the site serves for each user id
    request,    \* send_common: the URL requested and whether it was answered
    sent,       \* what send / send_light returned
    dinput,     \* Domain codec: the string / value handed to the codec
    dresult,    \* Domain codec: what the codec returned
    pdoc,       \* Profile::get: the pages served, and whether get accepts them
    presult,    \* Profile::get: what it returned
    cdoc,       \* parse_classes: the class-listing document
    cresult     \* parse_classes: what it returned

builderVars == <<criteria, hist>>
siteVars == <<page, site>>
execVars == <<request, sent>>
domainVars == <<dinput, dresult>>
profileVars == <<pdoc, presult>>
classVars == <<cdoc, cresult>>
vars == <<criteria, hist, page, site, request, sent, dinput, dresult, pdoc, presult,
          cdoc, cresult>>
notSearchVars == <<domainVars, profileVars, classVars>>
notDomainVars == <<builderVars, siteVars, execVars, profileVars, classVars>>
notProfileVars == <<builderVars, siteVars, execVars, domainVars, classVars>>
notClassVars == <<builderVars, siteVars, execVars, domainVars, profileVars>>

(***************************************************************************)
(* Bounds                                                                  *)
(***************************************************************************)
MaxCalls == 4        \* setter calls on one builder chain
MaxStrLen == 2       \* length of the strings handed to Domain::from_str

(***************************************************************************)
(* Option and Result                                                       *)
(***************************************************************************)
None == <<>>
Some(x) == <<x>>
IsSome(o) == Len(o) = 1
Unwrap(o) == o[1]

Ok(v) == [st |-> "Ok", val |-> v]
Err(kind, what) == [st |-> "Err", kind |-> kind, what |-> what]
Panic(what) == [st |-> "Panic", what |-> what]
Pending == [st |-> "Pending"]
IsOk(r) == r.st = "Ok"

(***************************************************************************)
(* Text: the str and char operations the decoders use                      *)
(***************************************************************************)
Digits == <<"0", "1", "2", "3", "4", "5", "6", "7", "8", "9">>
IsDigit(c) == \E i \in 1..10 : Digits[i] = c
DigitVal(c) == (CHOOSE i \in 1..10 : Digits[i] = c) - 1

\* char::is_whitespace, on the characters of the model ("NBSP" is U+00A0)
IsWhitespace(c) == c \in {" ", "NBSP"}

MinOf(S) == CHOOSE i \in S : \A j \in S : i <= j
MaxOf(S) == CHOOSE i \in S : \A j \in S : j <= i
MinOrZero(S) == IF S = {} THEN 0 ELSE MinOf(S)

\* the least index at which pat occurs in s, 0 when it does not occur
IndexOf(s, pat) ==
    MinOrZero({i \in 1..(Len(s) - Len(pat) + 1) : SubSeq(s, i, i + Len(pat) - 1) = pat})

RECURSIVE Split(_, _)
\* Split, with i the place of the first occurrence of pat in s
SplitAt(s, pat, i) ==
    IF i = 0 THEN <<s>>
    ELSE <<SubSeq(s, 1, i - 1)>> \o Split(SubSeq(s, i + Len(pat), Len(s)), pat)

\* str::split(pat).collect(): the parts between the occurrences of pat; a
\* text without pat is its own single part
Split(s, pat) == SplitAt(s, pat, IndexOf(s, pat))

RECURSIVE Join(_, _)
Join(parts, sep) ==
    IF Len(parts) = 1 THEN parts[1]
    ELSE parts[1] \o sep \o Join(Tail(parts), sep)

\* str::replace(from, to)
Replace(s, from, to) == Join(Split(s, from), to)

RECURSIVE SplitWhitespace(_)
\* SplitWhitespace of a text that starts with a token, with stop the place
\* of its first whitespace
TakeToken(s, stop) ==
    IF stop = 0 THEN <<s>>
    ELSE <<SubSeq(s, 1, stop - 1)>> \o SplitWhitespace(SubSeq(s, stop, Len(s)))

\* str::split_whitespace().collect(): the maximal runs of non-whitespace
SplitWhitespace(s) ==
    IF s = <<>> THEN <<>>
    ELSE IF IsWhitespace(s[1]) THEN SplitWhitespace(Tail(s))
    ELSE TakeToken(s, MinOrZero({i \in 1..Len(s) : IsWhitespace(s[i])}))

RECURSIVE TrimEndMatches(_, _)
\* str::trim_end_matches(c)
TrimEndMatches(s, c) ==
    IF s # <<>> /\ s[Len(s)] = c THEN TrimEndMatches(SubSeq(s, 1, Len(s) - 1), c) ELSE s

\* str::strip_prefix(p).unwrap_or(s)
StripPrefixOr(s, p) ==
    IF Len(s) >= Len(p) /\ SubSeq(s, 1, Len(p)) = p THEN SubSeq(s, Len(p) + 1, Len(s)) ELSE s

\* the run of digits of s that starts at a (none when a = 0)
DigitRunFrom(s, a) ==
    IF a = 0 THEN <<>>
    ELSE SubSeq(s, a, MaxOf({i \in a..Len(s) : \A k \in a..i : IsDigit(s[k])}))

\* chars().skip_while(|ch| !ch.is_digit(10)).take_while(|ch| ch.is_digit(10)):
\* the first maximal run of decimal digits
DigitRun(s) == DigitRunFrom(s, MinOrZero({i \in 1..Len(s) : IsDigit(s[i])}))

RECURSIVE StripZeros(_)
StripZeros(s) == IF Len(s) > 1 /\ s[1] = "0" THEN StripZeros(Tail(s)) ELSE s

RECURSIVE DigitsLess(_, _)
\* a < b for two digit texts of the same length
DigitsLess(a, b) ==
    IF a = <<>> THEN FALSE
    ELSE IF a[1] # b[1] THEN DigitVal(a[1]) < DigitVal(b[1])
    ELSE DigitsLess(Tail(a), Tail(b))

\* the greatest values of u16, u32 and u64, in decimal digits
U16Max == <<"6", "5", "5", "3", "5">>
U32Max == <<"4", "2", "9", "4", "9", "6", "7", "2", "9", "5">>
U64Max == <<"1", "8", "4", "4", "6", "7", "4", "4", "0", "7", "3", "7", "0", "9", "5", "5", "1", "6", "1", "5">>

ParseIntError(s) == [st |-> "Err", kind |-> "ParseIntError", what |-> s]

\* the digits n (without leading zeros) as a value of at most max
Fitting(s, n, max) ==
    IF Len(n) > Len(max) \/ (Len(n) = Len(max) /\ DigitsLess(max, n)) THEN ParseIntError(s)
    ELSE [st |-> "Ok", val |-> n]

\* ParseUnsigned, with body the text after the optional sign
ParseDigits(s, body, max) ==
    IF body = <<>> \/ \E i \in 1..Len(body) : ~IsDigit(body[i]) THEN ParseIntError(s)
    ELSE Fitting(s, StripZeros(body), max)

\* str::parse::<uN>() for an unsigned integer type of maximum max: an optional
\* '+' and then one or more decimal digits, of a value that fits.  The value
\* is kept as its decimal digits without leading zeros.
ParseUnsigned(s, max) == ParseDigits(s, IF s # <<>> /\ s[1] = "+" THEN Tail(s) ELSE s, max)

(***************************************************************************)
(* The lookup tables (Server, Datacenter, Race, Clan, Gender, ClassType):  *)
(* closed sets of names with a string codec                                *)
(***************************************************************************)
ServerNames == {<<"G", "i", "l", "g", "a", "m", "e", "s", "h">>, <<"C", "e", "r", "b", "e", "r", "u", "s">>}
DatacenterNames == {<<"P", "r", "i", "m", "a", "l">>, <<"C", "h", "a", "o", "s">>}
RaceNames == {<<"H", "y", "u", "r">>, <<"A", "u", " ", "R", "a">>}
ClanNames == {<<"M", "i", "d", "l", "a", "n", "d", "e", "r">>, <<"R", "a", "e", "n">>}
GenderNames == {<<"M">>, <<"F">>}

\* T::from_str of a lookup table with the names `names`: a value of the
\* table is written as its name; an unrecognized code is invalid data
LookupFromStr(names, s, table) ==
    IF s \in names THEN [st |-> "Ok", val |-> s]
    ELSE [st |-> "Err", kind |-> "InvalidData", what |-> table]

ServerFromStr(s) == LookupFromStr(ServerNames, s, "Server")
DatacenterFromStr(s) == LookupFromStr(DatacenterNames, s, "Datacenter")
RaceFromStr(s) == LookupFromStr(RaceNames, s, "Race")
ClanFromStr(s) == LookupFromStr(ClanNames, s, "Clan")
GenderFromStr(s) == LookupFromStr(GenderNames, s, "Gender")

(***************************************************************************)
(* ensure_node!, ensure! and the ? operator                                *)
(***************************************************************************)
\* the ? operator: the value of an Ok result is handed on to the rest of the
\* function; any other result (an Err, or a panic on its way out) ends it
Try(r, Rest(_)) == IF r.st = "Ok" THEN Rest(r.val) ELSE r

NodeNotFound(selector) == [st |-> "Err", kind |-> "NodeNotFound", what |-> selector]
InvalidData(what) == [st |-> "Err", kind |-> "InvalidData", what |-> what]

\* ensure_node!(doc, selector, nth): the nth node the selector finds
EnsureNth(found, nth, selector) ==
    IF Len(found) > nth THEN [st |-> "Ok", val |-> found[nth + 1]]
    ELSE NodeNotFound(selector)

\* ensure_node!(doc, selector)
EnsureNode(found, selector) == EnsureNth(found, 0, selector)

(***************************************************************************)
(* Domain (src/model/domain.rs)                                            *)
(***************************************************************************)
Domain == {"Japan", "NorthAmerica", "Europe", "France", "Germany"}

\* a to_string with the codes of France and Germany exchanged
DomainToStringFlipped(d) ==
    CASE d = "Japan" -> <<"j", "p">>
      [] d = "NorthAmerica" -> <<"n", "a">>
      [] d = "Europe" -> <<"e", "u">>
      [] d = "France" -> <<"d", "e">>
      [] d = "Germany" -> <<"f", "r">>

\* Domain::to_string
DomainToString(d) ==
    CASE d = "Japan" -> <<"j", "p">>
      [] d = "NorthAmerica" -> <<"n", "a">>
      [] d = "Europe" -> <<"e", "u">>
      [] d = "France" -> <<"f", "r">>
      [] d = "Germany" -> <<"d", "e">>

\* <Domain as FromStr>::from_str
DomainFromStr(s) ==
    CASE s = <<"j", "p">> -> Ok("Japan")
      [] s = <<"n", "a">> -> Ok("NorthAmerica")
      [] s = <<"e", "u">> -> Ok("Europe")
      [] s = <<"f", "r">> -> Ok("France")
      [] s = <<"d", "e">> -> Ok("Germany")
      [] OTHER -> Err("DomainParseError", s)

\* the letters the codec's inputs are drawn from: those of the five codes,
\* an upper-case letter and a space
DomainAlphabet == {"j", "p", "n", "a", "e", "u", "f", "r", "d", "J", " "}

DomainStrings == UNION {[1..n -> DomainAlphabet] : n \in 0..MaxStrLen}

\* a caller encodes a Domain value
DomainEncode(d) ==
    /\ dresult.st = "Pending"
    /\ dinput' = Some(d)
    /\ dresult' = [st |-> "Encoded", val |-> DomainToString(d)]
    /\ UNCHANGED notDomainVars

\* a caller decodes what to_string produced
DomainDecodeBack ==
    /\ dresult.st = "Encoded"
    /\ dinput' = dinput
    /\ dresult' = [st |-> "RoundTrip", val |-> DomainFromStr(dresult.val)]
    /\ UNCHANGED notDomainVars

\* a caller decodes an arbitrary string
DomainDecode(s) ==
    /\ dresult.st = "Pending"
    /\ dinput' = Some(s)
    /\ dresult' = [st |-> "Decoded", val |-> DomainFromStr(s)]
    /\ UNCHANGED notDomainVars

DomainNext ==
    \/ \E d \in Domain : DomainEncode(d)
    \/ DomainDecodeBack
    \/ \E s \in DomainStrings : DomainDecode(s)

(***************************************************************************)
(* SearchBuilder (src/search.rs)                                           *)
(***************************************************************************)
\* the values the setters are called with
Servers == ServerNames
Datacenters == DatacenterNames
Characters == {<<"A", "l">>, <<"A", "l", "&", "w", "o", "r", "l", "d", "n", "a", "m", "e", "=", "E", "d">>}
LangInputs == {"Japanese", "German"}
GCInputs == {"Unaffiliated", "TwinAdder"}

\* SearchBuilder::new
NewBuilder ==
    [domain |-> None, server |-> None, datacenter |-> None,
     character |-> None, lang |-> {}, gc |-> {}]

BuilderInit ==
    /\ criteria = NewBuilder
    /\ hist = [calls |-> 0, worlds |-> <<>>]

Building == sent.st = "Pending" /\ hist.calls < MaxCalls

Called == [hist EXCEPT !.calls = @ + 1]

\* SearchBuilder::domain
SetDomain(d) ==
    /\ Building
    /\ criteria' = [criteria EXCEPT !.domain = Some(d)]
    /\ hist' = Called
    /\ UNCHANGED <<siteVars, execVars, notSearchVars>>

\* SearchBuilder::character
SetCharacter(n) ==
    /\ Building
    /\ criteria' = [criteria EXCEPT !.character = Some(n)]
    /\ hist' = Called
    /\ UNCHANGED <<siteVars, execVars, notSearchVars>>

\* the body of SearchBuilder::datacenter
DatacenterBody(c, dc) == [c EXCEPT !.datacenter = Some(dc), !.server = None]

\* a server setter that leaves the datacenter as it is
ServerKeepsDatacenter(c, s) == [c EXCEPT !.server = Some(s)]

\* the body of SearchBuilder::server
ServerBody(c, s) == [c EXCEPT !.server = Some(s), !.datacenter = None]

\* SearchBuilder::datacenter
SetDatacenter(dc) ==
    /\ Building
    /\ criteria' = DatacenterBody(criteria, dc)
    /\ hist' = [Called EXCEPT !.worlds = Append(@, <<"datacenter", dc>>)]
    /\ UNCHANGED <<siteVars, execVars, notSearchVars>>

\* SearchBuilder::server
SetServer(s) ==
    /\ Building
    /\ criteria' = ServerBody(criteria, s)
    /\ hist' = [Called EXCEPT !.worlds = Append(@, <<"server", s>>)]
    /\ UNCHANGED <<siteVars, execVars, notSearchVars>>

\* a language setter that also forgets the server
LangDropsServer(l) ==
    /\ Building
    /\ criteria' = [criteria EXCEPT !.lang = @ \cup {l}, !.server = None]
    /\ hist' = Called
    /\ UNCHANGED <<siteVars, execVars, notSearchVars>>

\* SearchBuilder::lang
SetLang(l) ==
    /\ Building
    /\ criteria' = [criteria EXCEPT !.lang = @ \cup {l}]
    /\ hist' = Called
    /\ UNCHANGED <<siteVars, execVars, notSearchVars>>

\* SearchBuilder::grand_company
SetGrandCompany(g) ==
    /\ Building
    /\ criteria' = [criteria EXCEPT !.gc = @ \cup {g}]
    /\ hist' = Called
    /\ UNCHANGED <<siteVars, execVars, notSearchVars>>

\* the match on Language in send_common
LangCode(l) ==
    CASE l = "Japanese" -> <<"b", "l", "o", "g", "_", "l", "a", "n", "g", "=", "j", "a", "&">>
      [] l = "English" -> <<"b", "l", "o", "g", "_", "l", "a", "n", "g", "=", "e", "n", "&">>
      [] l = "German" -> <<"b", "l", "o", "g", "_", "l", "a", "n", "g", "=", "d", "e", "&">>
      [] l = "French" -> <<"b", "l", "o", "g", "_", "l", "a", "n", "g", "=", "f", "r", "&">>

\* the match on GrandCompany in send_common
GcCode(g) ==
    CASE g = "Unaffiliated" -> <<"g", "c", "i", "d", "=", "0", "&">>
      [] g = "Maelstrom" -> <<"g", "c", "i", "d", "=", "1", "&">>
      [] g = "TwinAdder" -> <<"g", "c", "i", "d", "=", "2", "&">>
      [] g = "ImmortalFlames" -> <<"g", "c", "i", "d", "=", "3", "&">>

\* the orders in which a HashSet may be iterated
Orders(S) == {o \in [1..Cardinality(S) -> S] : \A x \in S : \E i \in DOMAIN o : o[i] = x}

RECURSIVE LangTerms(_)
\* send_common: self.lang.iter().for_each(...), in the iteration order lo
LangTerms(lo) == IF lo = <<>> THEN <<>> ELSE LangCode(lo[1]) \o LangTerms(Tail(lo))

RECURSIVE GcTerms(_)
\* send_common: self.gc.iter().for_each(...), in the iteration order go
GcTerms(go) == IF go = <<>> THEN <<>> ELSE GcCode(go[1]) \o GcTerms(Tail(go))

\* send_common's `if let` on character: the name is written as it is
CharacterTerm(c) ==
    IF IsSome(c.character) THEN <<"q", "=">> \o Unwrap(c.character) \o <<"&">> ELSE <<>>

\* send_common's two `if let` on datacenter and server; a Server and a
\* Datacenter are displayed as their names
WorldTerms(c) ==
    (IF IsSome(c.datacenter) THEN <<"w", "o", "r", "l", "d", "n", "a", "m", "e", "=", "_", "d", "c", "_">> \o Unwrap(c.datacenter) \o <<"&">>
     ELSE <<>>)
    \o (IF IsSome(c.server) THEN <<"w", "o", "r", "l", "d", "n", "a", "m", "e", "=">> \o Unwrap(c.server) \o <<"&">> ELSE <<>>)

\* send_common, up to the request: the URL; lo and go are the iteration
\* orders of the two HashSets
BuildUrl(c, lo, go) ==
    TrimEndMatches(
        <<"h", "t", "t", "p", "s", ":", "/", "/">>
        \o DomainToString(IF IsSome(c.domain) THEN Unwrap(c.domain) ELSE "NorthAmerica")
        \o <<".", "f", "i", "n", "a", "l", "f", "a", "n", "t", "a", "s", "y", "x", "i", "v", ".", "c", "o", "m", "/", "l", "o", "d", "e", "s", "t", "o", "n", "e", "/", "c", "h", "a", "r", "a", "c", "t", "e", "r", "/", "?">>
        \o CharacterTerm(c)
        \o WorldTerms(c)
        \o LangTerms(lo)
        \o GcTerms(go),
        "&")

(***************************************************************************)
(* LightProfile (src/model/profile.rs): the decoder of one entry node of   *)
(* a results page.  An entry node is a record                              *)
(*   world : Option<Text>            text of the .entry__world node        *)
(*   link  : Option<[href : Option<Text>]>   the .entry__link node         *)
(*   name  : Option<Text>            text of the .entry__name node         *)
(*   face  : Option<[src : Option<Text>]>    the img under the face node   *)
(***************************************************************************)
\* LightProfile::parse_user_id
LightParseUserId(node) ==
    Try(EnsureNode(node.link, "Class(entry__link)(0)"), LAMBDA link :
        IF link.href = None THEN InvalidData("missing user profile href")
        ELSE ParseUnsigned(DigitRun(Unwrap(link.href)), U32Max))

\* a home decode that takes every world text of two parts or more
LightHomeAtLeastTwo(parts) ==
    IF Len(parts) < 2 THEN InvalidData("entry__world")
    ELSE Try(ServerFromStr(parts[1]), LAMBDA server :
         Try(DatacenterFromStr(TrimEndMatches(parts[2], "]")), LAMBDA datacenter :
         Ok([server |-> server, datacenter |-> datacenter])))

\* parse_home, once the world text is split
LightHomeOfParts(parts) ==
    IF Len(parts) # 2 THEN InvalidData("entry__world")
    ELSE Try(ServerFromStr(parts[1]), LAMBDA server :
         Try(DatacenterFromStr(TrimEndMatches(parts[2], "]")), LAMBDA datacenter :
         Ok([server |-> server, datacenter |-> datacenter])))

\* LightProfile::parse_home
LightParseHome(node) ==
    Try(EnsureNode(node.world, "Class(entry__world)(0)"), LAMBDA text :
        LightHomeOfParts(Split(text, <<" ", "[">>)))

\* LightProfile::parse_name
LightParseName(node) == EnsureNode(node.name, "Class(entry__name)(0)")

\* LightProfile::parse_image_url and Profile::parse_image_url
ParseImageUrl(img, selector) ==
    Try(EnsureNode(img, selector), LAMBDA found :
        IF found.src = None THEN InvalidData("missing image source")
        ELSE Ok(Unwrap(found.src)))

\* LightProfile::create_from
LightCreateFrom(node) ==
    Try(LightParseHome(node), LAMBDA home_info :
    Try(LightParseUserId(node), LAMBDA user_id :
    Try(LightParseName(node), LAMBDA name :
    Try(ParseImageUrl(node.face, "Class(entry__chara__face).descendant(Name(img))(0)"),
        LAMBDA face_portrait_url :
    Ok([user_id |-> user_id, name |-> name,
        server |-> home_info.server, datacenter |-> home_info.datacenter,
        face_portrait_url |-> face_portrait_url])))))

(***************************************************************************)
(* Classes (the map of ClassType to Option<ClassInfo> that parse_classes   *)
(* fills and Profile::level reads)                                         *)
(***************************************************************************)
\* the display names of ClassType and the variants they decode to
ClassTable ==
    <<<<<<"P", "a", "l", "a", "d", "i", "n">>, "Paladin">>, <<<<"G", "l", "a", "d", "i", "a", "t", "o", "r">>, "Gladiator">>,
      <<<<"W", "a", "r", "r", "i", "o", "r">>, "Warrior">>, <<<<"M", "a", "r", "a", "u", "d", "e", "r">>, "Marauder">>,
      <<<<"W", "h", "i", "t", "e", " ", "M", "a", "g", "e">>, "WhiteMage">>, <<<<"C", "o", "n", "j", "u", "r", "e", "r">>, "Conjurer">>,
      <<<<"M", "o", "n", "k">>, "Monk">>, <<<<"P", "u", "g", "i", "l", "i", "s", "t">>, "Pugilist">>,
      <<<<"D", "r", "a", "g", "o", "o", "n">>, "Dragoon">>, <<<<"L", "a", "n", "c", "e", "r">>, "Lancer">>,
      <<<<"N", "i", "n", "j", "a">>, "Ninja">>, <<<<"R", "o", "g", "u", "e">>, "Rogue">>,
      <<<<"B", "a", "r", "d">>, "Bard">>, <<<<"A", "r", "c", "h", "e", "r">>, "Archer">>,
      <<<<"B", "l", "a", "c", "k", " ", "M", "a", "g", "e">>, "BlackMage">>, <<<<"T", "h", "a", "u", "m", "a", "t", "u", "r", "g", "e">>, "Thaumaturge">>,
      <<<<"S", "u", "m", "m", "o", "n", "e", "r">>, "Summoner">>, <<<<"A", "r", "c", "a", "n", "i", "s", "t">>, "Arcanist">>,
      <<<<"M", "a", "c", "h", "i", "n", "i", "s", "t">>, "Machinist">>>>

ClassType == {ClassTable[i][2] : i \in DOMAIN ClassTable}

\* ClassType::from_str
ClassTypeFromStr(s) ==
    IF \E i \in DOMAIN ClassTable : ClassTable[i][1] = s
    THEN Ok(ClassTable[CHOOSE i \in DOMAIN ClassTable : ClassTable[i][1] = s][2])
    ELSE [st |-> "Err", kind |-> "InvalidData", what |-> "ClassType"]

\* Classes::new
ClassesNew == [c \in {} |-> None]

\* Classes::insert
ClassesInsert(m, class, info) ==
    [c \in DOMAIN m \cup {class} |-> IF c = class THEN info ELSE m[c]]

\* Classes::get
ClassesGet(m, class) == IF class \in DOMAIN m THEN m[class] ELSE None

\* the upgraded jobs and the base vocation each is paired with: the match
\* at the end of parse_classes' loop body
Upgraded ==
    {"Paladin", "Warrior", "WhiteMage", "Monk", "Dragoon", "Ninja", "Bard",
     "BlackMage", "Summoner"}

BaseOf(class) ==
    CASE class = "Paladin" -> "Gladiator"
      [] class = "Warrior" -> "Marauder"
      [] class = "WhiteMage" -> "Conjurer"
      [] class = "Monk" -> "Pugilist"
      [] class = "Dragoon" -> "Lancer"
      [] class = "Ninja" -> "Rogue"
      [] class = "Bard" -> "Archer"
      [] class = "BlackMage" -> "Thaumaturge"
      [] class = "Summoner" -> "Arcanist"

\* an experience decode that reads the placeholder "--" as zero
ParseXpDashZero(text) ==
    IF text = <<"-", "-">> THEN Ok(Some(<<"0">>))
    ELSE Try(ParseUnsigned(Replace(text, <<",">>, <<>>), U64Max), LAMBDA n : Ok(Some(n)))

\* parse_classes: one experience component: "--" is None, anything else is
\* parsed with the thousands separators removed
ParseXp(text) ==
    IF text = <<"-", "-">> THEN Ok(None)
    ELSE Try(ParseUnsigned(Replace(text, <<",">>, <<>>), U64Max), LAMBDA n : Ok(Some(n)))

\* parse_classes: the ClassInfo of a level text and the parts of the
\* experience text
ClassInfoOfParts(level, parts) ==
    IF Len(parts) < 2 THEN InvalidData("character__job__exp")
    ELSE Try(ParseUnsigned(level, U32Max), LAMBDA lv :
         Try(ParseXp(parts[1]), LAMBDA current_xp :
         Try(ParseXp(parts[2]), LAMBDA max_xp :
         Ok(Some([level |-> lv, current_xp |-> current_xp, max_xp |-> max_xp])))))

\* parse_classes: the `match` that decodes an item's level and experience
\* into an Option<ClassInfo>.  An item is a record
\*   name, level, exp : Option<Text>   texts of the item's three nodes
ParseClassInfo(item) ==
    Try(EnsureNode(item.level, "Class(character__job__level)(0)"), LAMBDA level :
        IF level = <<"-">> THEN Ok(None)
        ELSE Try(EnsureNode(item.exp, "Class(character__job__exp)(0)"), LAMBDA text :
             ClassInfoOfParts(level, Split(text, <<" ", "/", " ">>))))

\* parse_classes: the `match class` and the insert that follows it
InsertClass(classes, class, classinfo) ==
    ClassesInsert(
        IF class \in Upgraded THEN ClassesInsert(classes, BaseOf(class), classinfo)
        ELSE classes,
        class, classinfo)

\* parse_classes: the body of the loop over the items, on the map so far
ParseClassItem(classes, item) ==
    Try(EnsureNode(item.name, "Class(character__job__name)(0)"), LAMBDA name :
    Try(ParseClassInfo(item), LAMBDA classinfo :
    Try(ClassTypeFromStr(Split(name, <<" ", "/", " ">>)[1]), LAMBDA class :
    Ok(InsertClass(classes, class, classinfo)))))

RECURSIVE ParseClassItems(_, _)
\* parse_classes: the loop over the items
ParseClassItems(classes, items) ==
    IF items = <<>> THEN Ok(classes)
    ELSE Try(ParseClassItem(classes, items[1]), LAMBDA inserted :
             ParseClassItems(inserted, Tail(items)))

TakeBlocks == 4

RECURSIVE Flatten(_)
Flatten(lists) == IF lists = <<>> THEN <<>> ELSE lists[1] \o Flatten(Tail(lists))

\* Profile::parse_classes: the document is the sequence of its
\* .character__content blocks, each the sequence of its li items
ParseClasses(doc) ==
    ParseClassItems(ClassesNew,
        Flatten(SubSeq(doc, 1, IF Len(doc) < TakeBlocks THEN Len(doc) ELSE TakeBlocks)))

\* Profile::class_info
ClassInfoOf(classes, class) == ClassesGet(classes, class)

\* Profile::level
Level(classes, class) ==
    IF IsSome(ClassInfoOf(classes, class)) THEN Some(Unwrap(ClassInfoOf(classes, class)).level)
    ELSE None

(***************************************************************************)
(* Profile (src/model/profile.rs): the decoder of a main page and a class  *)
(* listing.  A main document is a record                                   *)
(*   block_names : Seq<Text>    inner html of the .character-block__name   *)
(*                              nodes, in document order                   *)
(*   world       : Option<Text> text of the .frame__chara__world node      *)
(*   param       : Option<Seq<[marks, span]>>  the li items under the      *)
(*                 .character__param node: the --en-us text markers the    *)
(*                 item holds (each once) and the text of its first span   *)
(*   freecompany, title, name, nameday : Option<Text>                      *)
(*   attrs       : Option<Seq<[span, td]>>  the tr rows of the attribute   *)
(*                 block, each with the texts of its first span and td     *)
(*   gear        : a function from the icon-c-- markers present to their   *)
(*                 first node: [empty, link, txt]                          *)
(*   face, portrait : Option<[src : Option<Text>]>  the img nodes          *)
(***************************************************************************)
\* Node::text of a node whose inner html is h: the markup is dropped
NodeText(h) == Replace(h, <<"<", "b", "r", ">">>, <<>>)

\* Profile::parse_free_company
ParseFreeCompany(doc) ==
    IF IsSome(doc.freecompany)
    THEN Some(StripPrefixOr(Unwrap(doc.freecompany), <<"F", "r", "e", "e", " ", "C", "o", "m", "p", "a", "n", "y">>))
    ELSE None

\* Profile::parse_title
ParseTitle(doc) == IF IsSome(doc.title) THEN Some(Unwrap(doc.title)) ELSE None

\* Profile::parse_name
ParseName(doc) == EnsureNode(doc.name, "Class(frame__chara__name)(0)")

\* Profile::parse_nameday
ParseNameday(doc) == EnsureNode(doc.nameday, "Class(character-block__birth)(0)")

\* Profile::parse_guardian
ParseGuardian(doc) ==
    Try(EnsureNth(doc.block_names, 1, "Class(character-block__name)(1)"), LAMBDA n :
        Ok(NodeText(n)))

\* Profile::parse_city_state
ParseCityState(doc) ==
    Try(EnsureNth(doc.block_names, 2, "Class(character-block__name)(2)"), LAMBDA n :
        Ok(NodeText(n)))

\* parse_home_info: the HomeInfo literal over the vector home_info; indexing
\* the vector past its end panics
HomeInfoOfTokens(home_info) ==
    IF Len(home_info) < 1 THEN Panic("index out of bounds: home_info[0]")
    ELSE Try(ServerFromStr(home_info[1]), LAMBDA server :
         IF Len(home_info) < 2 THEN Panic("index out of bounds: home_info[1]")
         ELSE Try(DatacenterFromStr(home_info[2]), LAMBDA datacenter :
              Ok([server |-> server, datacenter |-> datacenter])))

\* parse_home_info: the tokens of the first NBSP-delimited group of the
\* text, with the brackets removed.  split() always yields a first part, so
\* the ensure!(server.is_some()) never fails.
HomeInfoTokens(text) ==
    [i \in DOMAIN SplitWhitespace(Split(text, <<"NBSP">>)[1]) |->
        Replace(Replace(SplitWhitespace(Split(text, <<"NBSP">>)[1])[i], <<"[">>, <<>>),
                <<"]">>, <<>>)]

\* Profile::parse_home_info
ParseHomeInfo(doc) ==
    Try(EnsureNode(doc.world, "Class(frame__chara__world)(0)"), LAMBDA text :
        HomeInfoOfTokens(HomeInfoTokens(text)))

\* a decode that takes three tokens only
CharInfoThreeOnly(char_info) ==
    IF Len(char_info) # 3 THEN InvalidData("character block name")
    ELSE Try(RaceFromStr(char_info[1]), LAMBDA race :
         Try(ClanFromStr(char_info[2]), LAMBDA clan :
         Try(GenderFromStr(char_info[3]), LAMBDA gender :
         Ok([race |-> race, clan |-> clan, gender |-> gender]))))

\* parse_char_info, once the tokens are split
CharInfoOfTokens(char_info) ==
    IF ~(Len(char_info) = 3 \/ Len(char_info) = 4)
       THEN InvalidData("character block name")
    ELSE IF Len(char_info) = 4
       THEN Try(ClanFromStr(char_info[3]), LAMBDA clan :
            Try(GenderFromStr(char_info[4]), LAMBDA gender :
            Ok([race |-> <<"A", "u", " ", "R", "a">>, clan |-> clan, gender |-> gender])))
    ELSE Try(RaceFromStr(char_info[1]), LAMBDA race :
         Try(ClanFromStr(char_info[2]), LAMBDA clan :
         Try(GenderFromStr(char_info[3]), LAMBDA gender :
         Ok([race |-> race, clan |-> clan, gender |-> gender]))))

\* parse_char_info: char_block, from the name block's inner html
CharBlock(html) ==
    Replace(Replace(Replace(html, <<" ">>, <<"_">>), <<"<", "b", "r", ">">>, <<" ">>), <<"_", "/", "_">>, <<" ">>)

\* parse_char_info: the vector char_info
CharInfoTokens(html) ==
    [i \in DOMAIN SplitWhitespace(CharBlock(html)) |->
        Replace(SplitWhitespace(CharBlock(html))[i], <<"_">>, <<" ">>)]

\* Profile::parse_char_info
ParseCharInfo(doc) ==
    Try(EnsureNth(doc.block_names, 0, "Class(character-block__name)(0)"), LAMBDA block :
        CharInfoOfTokens(CharInfoTokens(block)))

\* parse_char_param: the text of an item's first span as a u32
ParamValue(item) ==
    Try(EnsureNode(item.span, "Name(span)(0)"), LAMBDA text : ParseUnsigned(text, U32Max))

RECURSIVE CharParamLoop(_, _, _)
\* parse_char_param: the loop over the li items, from (hp, mp) so far
CharParamLoop(items, hp, mp) ==
    IF items = <<>> THEN Ok(<<hp, mp>>)
    ELSE IF "hp" \in items[1].marks
       THEN Try(ParamValue(items[1]), LAMBDA v : CharParamLoop(Tail(items), Some(v), mp))
    ELSE IF items[1].marks \cap {"mp", "gp", "cp"} # {}
       THEN Try(ParamValue(items[1]), LAMBDA v : CharParamLoop(Tail(items), hp, Some(v)))
    ELSE CharParamLoop(Tail(items), hp, mp)

\* Profile::parse_char_param
ParseCharParam(doc) ==
    Try(EnsureNode(doc.param, "Class(character__param)(0)"), LAMBDA attr_block :
    Try(CharParamLoop(attr_block, None, None), LAMBDA found :
        IF ~(IsSome(found[1]) /\ IsSome(found[2])) THEN InvalidData("character__param")
        ELSE Ok([hp |-> Unwrap(found[1]), mp |-> Unwrap(found[2])])))

\* HashMap::insert
MapInsert(m, key, value) == [k \in DOMAIN m \cup {key} |-> IF k = key THEN value ELSE m[k]]
EmptyMap == [k \in {} |-> None]

RECURSIVE AttributesLoop(_, _)
\* parse_attributes: the loop over the rows, on the map so far
AttributesLoop(rows, attributes) ==
    IF rows = <<>> THEN Ok(attributes)
    ELSE Try(EnsureNode(rows[1].span, "Name(span)(0)"), LAMBDA name :
         Try(EnsureNode(rows[1].td, "Name(td)(0)"), LAMBDA td :
         Try(ParseUnsigned(td, U16Max), LAMBDA level :
         AttributesLoop(Tail(rows), MapInsert(attributes, name, [level |-> level])))))

\* Profile::parse_attributes
ParseAttributes(doc) ==
    Try(EnsureNode(doc.attrs, "Class(character__profile__data)(0)"), LAMBDA block :
        AttributesLoop(block, EmptyMap))

GearLinkSegments == 7

\* a link decode that takes every reference of 6 segments or more
GearLinkAnyCount(parts) ==
    IF Len(parts) < 6 THEN InvalidData("invalid gear link")
    ELSE Ok(parts[6])

\* parse_gear_link, once the href is split
GearLinkOfParts(parts) ==
    IF Len(parts) # GearLinkSegments THEN InvalidData("invalid gear link")
    ELSE Ok(parts[6])

\* Profile::parse_gear_link
ParseGearLink(href) ==
    IF href = None THEN InvalidData("missing gear link")
    ELSE GearLinkOfParts(Split(Unwrap(href), <<"/">>))

\* parse_gear: class_to_slot, the keys of the HashMap and their slots
ClassToSlot ==
    <<<<"icon-c--0", "PrimaryWeapon">>, <<"icon-c--1", "SecondaryWeapon">>,
      <<"icon-c--2", "Head">>, <<"icon-c--3", "Body">>, <<"icon-c--4", "Hands">>,
      <<"icon-c--6", "Legs">>, <<"icon-c--7", "Feet">>, <<"icon-c--8", "Earrings">>,
      <<"icon-c--9", "Necklace">>, <<"icon-c--10", "Bracelets">>,
      <<"icon-c--11", "Ring1">>, <<"icon-c--12", "Ring2">>, <<"icon-c--13", "Soul">>,
      <<"icon-c--glasses", "Glasses">>>>

\* parse_gear: the glamour of a slot
GlamourOf(mirage) ==
    IF mirage = None THEN Ok(None)
    ELSE Try(EnsureNode(Unwrap(mirage).btn, "Class(db-tooltip__item__mirage__btn)(0)"),
             LAMBDA glamour_link :
         Try(ParseGearLink(glamour_link.href), LAMBDA lodestone_id :
         Ok(Some([lodestone_id |-> lodestone_id, name |-> Unwrap(mirage).text]))))

\* parse_gear: the GearSlot of one slot node.  A slot node is a record
\*   empty : whether the node's text is ""
\*   link  : Option<[href]>  the a under .db-tooltip__bt_item_detail
\*   txt   : Option<[name : Option<Text>, mirage : Option<[btn, text]>]>
\*           the .db-tooltip__item__txt node; mirage is its
\*           .db-tooltip__item__mirage node, with its text and its
\*           .db-tooltip__item__mirage__btn node btn : Option<[href]>
GearSlotOf(node) ==
    Try(EnsureNode(node.link, "Class(db-tooltip__bt_item_detail).child(Name(a))(0)"),
        LAMBDA gear_link :
    Try(EnsureNode(node.txt, "Class(db-tooltip__item__txt)(0)"), LAMBDA txt :
    Try(ParseGearLink(gear_link.href), LAMBDA lodestone_id :
    Try(EnsureNode(txt.name, "Class(db-tooltip__item__name)(0)"), LAMBDA name :
    Try(GlamourOf(txt.mirage), LAMBDA glamour :
    Ok([gear |-> [lodestone_id |-> lodestone_id, name |-> name], glamour |-> glamour]))))))

RECURSIVE GearLoop(_, _, _)
\* parse_gear: the loop over class_to_slot, from entry i, on the GearSet so
\* far.  The HashMap is iterated in an unspecified order; every order gives
\* the same result when at most one slot node of the document fails, which
\* is the case of every document the model builds.
GearLoop(gearDoc, i, gear) ==
    IF i > Len(ClassToSlot) THEN Ok(gear)
    ELSE IF ClassToSlot[i][1] \notin DOMAIN gearDoc \/ gearDoc[ClassToSlot[i][1]].empty
       THEN GearLoop(gearDoc, i + 1, gear)
    ELSE Try(GearSlotOf(gearDoc[ClassToSlot[i][1]]), LAMBDA gear_slot :
             GearLoop(gearDoc, i + 1, MapInsert(gear, ClassToSlot[i][2], gear_slot)))

\* Profile::parse_gear
ParseGear(doc) == GearLoop(doc.gear, 1, EmptyMap)

\* load_url: the transport answers with a document or fails
LoadUrl(served) ==
    IF IsSome(served) THEN Ok(Unwrap(served))
    ELSE [st |-> "Err", kind |-> "Transport", what |-> "load_url"]

\* the place of the first result of rs that is not Ok, 0 when all are
FirstFailure(rs) == MinOrZero({i \in DOMAIN rs : rs[i].st # "Ok"})

\* Profile::get: the Ok(Self { ... }) that ends it, unless one of the
\* results rs stopped it before
ProfileOf(user_id, main_doc, rs, failed) ==
    IF failed # 0 THEN rs[failed]
    ELSE Ok([user_id |-> user_id,
             free_company |-> ParseFreeCompany(main_doc),
             title |-> ParseTitle(main_doc),
             name |-> rs[4].val,
             nameday |-> rs[5].val,
             guardian |-> rs[6].val,
             city_state |-> rs[7].val,
             server |-> rs[2].val.server,
             datacenter |-> rs[2].val.datacenter,
             race |-> rs[1].val.race,
             clan |-> rs[1].val.clan,
             gender |-> rs[1].val.gender,
             hp |-> rs[3].val.hp,
             mp |-> rs[3].val.mp,
             attributes |-> rs[8].val,
             gear |-> rs[9].val,
             face_portrait_url |-> rs[10].val,
             portrait_url |-> rs[11].val,
             classes |-> rs[12].val])

\* Profile::get: each `?` of the body returns from get when its result is
\* not Ok, so get ends with the first result in the order of the body that
\* is not Ok (an Err, or a panic on its way out)
FailFast(user_id, main_doc, rs) == ProfileOf(user_id, main_doc, rs, FirstFailure(rs))

\* Profile::get, once both documents are loaded.  The decoders are functions
\* of the documents alone; their results are listed in the order in which
\* the body evaluates them.
GetOfDocs(user_id, main_doc, classes_doc) ==
    FailFast(user_id, main_doc,
        <<ParseCharInfo(main_doc),
          ParseHomeInfo(main_doc),
          ParseCharParam(main_doc),
          ParseName(main_doc),
          ParseNameday(main_doc),
          ParseGuardian(main_doc),
          ParseCityState(main_doc),
          ParseAttributes(main_doc),
          ParseGear(main_doc),
          ParseImageUrl(main_doc.face,
              "Class(frame__chara__face).descendant(Name(img))(0)"),
          ParseImageUrl(main_doc.portrait,
              "Class(character__detail__image).descendant(Name(img))(0)"),
          ParseClasses(classes_doc)>>)

\* Profile::get: pages are what the site serves for user_id, the main page
\* and the class listing, each None when its fetch fails
Get(user_id, pages) ==
    IF LoadUrl(pages.main).st # "Ok" THEN LoadUrl(pages.main)
    ELSE IF LoadUrl(pages.class_job).st # "Ok" THEN LoadUrl(pages.class_job)
    ELSE GetOfDocs(user_id, LoadUrl(pages.main).val, LoadUrl(pages.class_job).val)

(***************************************************************************)
(* The documents the site serves                                           *)
(***************************************************************************)
GoodGearNode ==
    [empty |-> FALSE,
     link |-> Some([href |-> Some(<<"/", "l", "/", "p", "/", "d", "b", "/", "i", "t", "e", "m", "/", "2", "f", "4", "/">>)]),
     txt |-> Some([name |-> Some(<<"S", "w", "o", "r", "d">>), mirage |-> None])]

GlamourGearNode ==
    [GoodGearNode EXCEPT !.txt = Some([name |-> Some(<<"S", "w", "o", "r", "d">>),
        mirage |-> Some([btn |-> Some([href |-> Some(<<"/", "l", "/", "p", "/", "d", "b", "/", "i", "t", "e", "m", "/", "9", "a", "/">>)]),
                         text |-> <<"B", "l", "a", "d", "e">>])])]

\* a main page every decoder accepts
GoodMain ==
    [block_names |-> <<<<"H", "y", "u", "r", "<", "b", "r", ">", "M", "i", "d", "l", "a", "n", "d", "e", "r", " ", "/", " ", "M">>, <<"H", "a", "l", "o", "n", "e">>, <<"G", "r", "i", "d", "a", "n", "i", "a">>>>,
     world |-> Some(<<"G", "i", "l", "g", "a", "m", "e", "s", "h", " ", "[", "P", "r", "i", "m", "a", "l", "]">>),
     param |-> Some(<<[marks |-> {"hp"}, span |-> Some(<<"1", "0", "0">>)],
                      [marks |-> {"mp"}, span |-> Some(<<"2", "0", "0">>)]>>),
     freecompany |-> None,
     title |-> None,
     name |-> Some(<<"A", "l">>),
     nameday |-> Some(<<"1", "s", "t", " ", "S", "u", "n">>),
     attrs |-> Some(<<[span |-> Some(<<"S", "t", "r">>), td |-> Some(<<"1", "0">>)]>>),
     gear |-> [c \in {"icon-c--0"} |-> GoodGearNode],
     face |-> Some([src |-> Some(<<"f", ".", "j", "p", "g">>)]),
     portrait |-> Some([src |-> Some(<<"p", ".", "j", "p", "g">>)])]

ClassItem(name, level, exp) == [name |-> name, level |-> level, exp |-> exp]

\* a class listing parse_classes accepts
GoodClasses == <<<<ClassItem(Some(<<"P", "a", "l", "a", "d", "i", "n">>), Some(<<"5", "0">>), Some(<<"-", "-", " ", "/", " ", "-", "-">>))>>>>

GoodPages == [main |-> Some(GoodMain), class_job |-> Some(GoodClasses)]

(***************************************************************************)
(* SearchBuilder::send and send_light (src/search.rs)                      *)
(***************************************************************************)
MaxEntries == 2      \* entries of a results page

\* send_common: builds the URL and issues the request, which the transport
\* answers or fails
SendCommon(c, lo, go, answered) ==
    [st |-> IF answered THEN "Ok" ELSE "Err", url |-> BuildUrl(c, lo, go)]

\* Vec::push of the value of an Ok result; any other result is dropped
PushOk(r, rest) == (IF r.st = "Ok" THEN <<r.val>> ELSE <<>>) \o rest

RECURSIVE LightUntilFailure(_)
\* a collection that ends at the first entry node that fails to decode
LightUntilFailure(entries) ==
    IF entries = <<>> \/ LightCreateFrom(entries[1]).st # "Ok" THEN <<>>
    ELSE <<LightCreateFrom(entries[1]).val>> \o LightUntilFailure(Tail(entries))

RECURSIVE LightFilterMap(_)
\* send_light: the filter_map over the entry nodes
LightFilterMap(entries) ==
    IF entries = <<>> THEN <<>>
    ELSE PushOk(LightCreateFrom(entries[1]), LightFilterMap(Tail(entries)))

\* what the site serves for a user id: nothing for an id it does not know
SitePages(st, id) ==
    IF id \in DOMAIN st THEN st[id] ELSE [main |-> None, class_job |-> None]

\* the id of LinkId, with digits the digit run of the href
IdOfDigits(digits) == IF digits.st = "Ok" THEN Some(digits.val) ELSE None

\* send: the first and_then, the id of an entry link node
LinkId(link) ==
    IF link.href = None THEN None
    ELSE IdOfDigits(ParseUnsigned(DigitRun(Unwrap(link.href)), U32Max))

\* send: the second and_then, Profile::get of the id
GetOfId(id, st) ==
    IF IsSome(id) THEN Get(Unwrap(id), SitePages(st, Unwrap(id)))
    ELSE [st |-> "None"]

\* send: one more result collected; a panic inside Profile::get unwinds out
\* of the iteration
Collected(profile, rest) ==
    IF profile.st = "Panic" THEN profile
    ELSE IF rest.st = "Panic" THEN rest
    ELSE Ok(PushOk(profile, rest.val))

RECURSIVE SendFilterMap(_, _)
\* send: the filter_map over the entry link nodes
SendFilterMap(links, st) ==
    IF links = <<>> THEN Ok(<<>>)
    ELSE Collected(GetOfId(LinkId(links[1]), st), SendFilterMap(Tail(links), st))

RECURSIVE EntryLinks(_)
\* the .entry__link nodes of the results page, in document order
EntryLinks(pg) ==
    IF pg = <<>> THEN <<>>
    ELSE (IF IsSome(pg[1].link) THEN <<Unwrap(pg[1].link)>> ELSE <<>>) \o EntryLinks(Tail(pg))

\* the request, with the method that made it
Requested(by, r) == [by |-> by, st |-> r.st, url |-> r.url]

TransportError == [st |-> "Err", kind |-> "Transport", what |-> "send_common"]

\* SearchBuilder::send_light
SendLight ==
    /\ sent.st = "Pending"
    /\ \E lo \in Orders(criteria.lang), go \in Orders(criteria.gc), answered \in BOOLEAN :
          /\ request' = Requested("send_light", SendCommon(criteria, lo, go, answered))
          /\ sent' = IF answered THEN Ok(LightFilterMap(page)) ELSE TransportError
    /\ UNCHANGED <<builderVars, siteVars, notSearchVars>>

\* SearchBuilder::send
Send ==
    /\ sent.st = "Pending"
    /\ \E lo \in Orders(criteria.lang), go \in Orders(criteria.gc), answered \in BOOLEAN :
          /\ request' = Requested("send", SendCommon(criteria, lo, go, answered))
          /\ sent' = IF answered THEN SendFilterMap(EntryLinks(page), site)
                     ELSE TransportError
    /\ UNCHANGED <<builderVars, siteVars, notSearchVars>>

GoodEntry(id) ==
    [world |-> Some(<<"G", "i", "l", "g", "a", "m", "e", "s", "h", " ", "[", "P", "r", "i", "m", "a", "l", "]">>),
     link |-> Some([href |-> Some(<<"/", "c", "/">> \o id \o <<"/">>)]),
     name |-> Some(<<"A", "l">>),
     face |-> Some([src |-> Some(<<"f", ".", "j", "p", "g">>)])]

UserIds == {<<"1">>, <<"2">>}

\* the entry nodes a results page is made of
Entries ==
    {GoodEntry(id) : id \in UserIds}
    \cup {[GoodEntry(<<"1">>) EXCEPT !.world = Some(<<"G", "i", "l", "g", "a", "m", "e", "s", "h">>)],
          [GoodEntry(<<"1">>) EXCEPT !.world = Some(<<"G", "i", "l", "g", "a", "m", "e", "s", "h", " ", "[", "P", "r", "i", "m", "a", "l", "]", " ", "[", "x", "]">>)],
          [GoodEntry(<<"2">>) EXCEPT !.world = Some(<<"C", "e", "r", "b", "e", "r", "u", "s", " ", "[", "C", "h", "a", "o", "s", "]">>)],
          [GoodEntry(<<"2">>) EXCEPT !.name = None],
          [GoodEntry(<<"1">>) EXCEPT !.link = None],
          [GoodEntry(<<"1">>) EXCEPT !.link = Some([href |-> Some(<<"/", "c", "/", "x", "/">>)])]}

\* what the site may serve for a user id
ServedPages ==
    {GoodPages,
     [GoodPages EXCEPT !.main = None],
     [GoodPages EXCEPT !.class_job = None],
     [GoodPages EXCEPT !.main = Some([GoodMain EXCEPT !.name = None])],
     [GoodPages EXCEPT !.main = Some([GoodMain EXCEPT !.world = Some(<<"G", "i", "l", "g", "a", "m", "e", "s", "h">>)])]}

SiteInit ==
    /\ page = <<>>
    /\ site = [id \in UserIds |-> GoodPages]

ExecInit == request = Pending /\ sent = Pending

\* the site lists one more entry on the results page
ListEntry(e) ==
    /\ sent.st = "Pending"
    /\ Len(page) < MaxEntries
    /\ page' = Append(page, e)
    /\ UNCHANGED <<site, builderVars, execVars, notSearchVars>>

\* the site serves other pages for a user id
Serve(id, pages) ==
    /\ sent.st = "Pending"
    /\ site[id] = GoodPages
    /\ pages # GoodPages
    /\ site' = [site EXCEPT ![id] = pages]
    /\ UNCHANGED <<page, builderVars, execVars, notSearchVars>>

(***************************************************************************)
(* Profile::get on the pages of one user id.  The pages start as pages     *)
(* every decoder accepts; the site then replaces parts of them, in the     *)
(* order in which get reads them, for as long as get still succeeds (what  *)
(* get reads after its first failure does not change its result).          *)
(***************************************************************************)
Parts ==
    <<"main", "class_job", "block_names", "world", "param", "freecompany", "title",
      "name", "nameday", "attrs", "gear", "face", "portrait", "classes">>

HpItem(text) == [marks |-> {"hp"}, span |-> text]
MpItem(mark, text) == [marks |-> {mark}, span |-> text]
Row(span, td) == [span |-> span, td |-> td]
OneSlot(node) == [c \in {"icon-c--0"} |-> node]
Mirage(btn) ==
    [GoodGearNode EXCEPT !.txt = Some([name |-> Some(<<"S", "w", "o", "r", "d">>),
        mirage |-> Some([btn |-> btn, text |-> <<"B", "l", "a", "d", "e">>])])]

\* what the site may serve for each part
PartInputs(part) ==
    CASE part \in {"main", "class_job"} -> {None}
      [] part = "block_names" ->
            {<<>>,
             <<<<"H", "y", "u", "r", "<", "b", "r", ">", "M", "i", "d", "l", "a", "n", "d", "e", "r", " ", "/", " ", "M">>>>,
             <<<<"H", "y", "u", "r", "<", "b", "r", ">", "M", "i", "d", "l", "a", "n", "d", "e", "r", " ", "/", " ", "M">>, <<"H", "a", "l", "o", "n", "e">>>>,
             <<<<"A", "u", " ", "R", "a", "<", "b", "r", ">", "R", "a", "e", "n", " ", "/", " ", "F">>, <<"H", "a", "l", "o", "n", "e">>, <<"G", "r", "i", "d", "a", "n", "i", "a">>>>,
             <<<<"A", "u", "<", "b", "r", ">", "R", "a", "<", "b", "r", ">", "R", "a", "e", "n", " ", "/", " ", "F">>, <<"H", "a", "l", "o", "n", "e">>, <<"G", "r", "i", "d", "a", "n", "i", "a">>>>,
             <<<<"H", "y", "u", "r", "<", "b", "r", ">", "E", "l", "f", "<", "b", "r", ">", "M", "i", "d", "l", "a", "n", "d", "e", "r", " ", "/", " ", "M">>, <<"H", "a", "l", "o", "n", "e">>, <<"G", "r", "i", "d", "a", "n", "i", "a">>>>,
             <<<<"H", "y", "u", "r", "<", "b", "r", ">", "M", "i", "d", "l", "a", "n", "d", "e", "r">>, <<"H", "a", "l", "o", "n", "e">>, <<"G", "r", "i", "d", "a", "n", "i", "a">>>>,
             <<<<"A", "<", "b", "r", ">", "B", "<", "b", "r", ">", "H", "y", "u", "r", "<", "b", "r", ">", "R", "a", "e", "n", " ", "/", " ", "F">>, <<"H", "a", "l", "o", "n", "e">>, <<"G", "r", "i", "d", "a", "n", "i", "a">>>>,
             <<<<>>, <<"H", "a", "l", "o", "n", "e">>, <<"G", "r", "i", "d", "a", "n", "i", "a">>>>,
             <<<<"E", "l", "f", "<", "b", "r", ">", "M", "i", "d", "l", "a", "n", "d", "e", "r", " ", "/", " ", "M">>, <<"H", "a", "l", "o", "n", "e">>, <<"G", "r", "i", "d", "a", "n", "i", "a">>>>,
             <<<<"H", "y", "u", "r", "<", "b", "r", ">", "R", "a", "e", "n", " ", "/", " ", "X">>, <<"H", "a", "l", "o", "n", "e">>, <<"G", "r", "i", "d", "a", "n", "i", "a">>>>,
             <<<<"A", "u", "<", "b", "r", ">", "R", "a", "<", "b", "r", ">", "E", "l", "f", " ", "/", " ", "F">>, <<"H", "a", "l", "o", "n", "e">>, <<"G", "r", "i", "d", "a", "n", "i", "a">>>>}
      [] part = "world" ->
            {None, Some(<<>>), Some(<<"G", "i", "l", "g", "a", "m", "e", "s", "h">>), Some(<<"N", "o", "w", "h", "e", "r", "e">>),
             Some(<<"NBSP", "G", "i", "l", "g", "a", "m", "e", "s", "h", " ", "[", "P", "r", "i", "m", "a", "l", "]">>), Some(<<"G", "i", "l", "g", "a", "m", "e", "s", "h", "NBSP", "[", "P", "r", "i", "m", "a", "l", "]">>),
             Some(<<"C", "e", "r", "b", "e", "r", "u", "s", " ", "[", "C", "h", "a", "o", "s", "]", " ", "x", "NBSP", "y">>), Some(<<"N", "o", "w", "h", "e", "r", "e", " ", "[", "P", "r", "i", "m", "a", "l", "]">>),
             Some(<<"G", "i", "l", "g", "a", "m", "e", "s", "h", " ", "[", "N", "o", "w", "h", "e", "r", "e", "]">>), Some(<<" ", " ">>)}
      [] part = "param" ->
            {None, Some(<<>>),
             Some(<<HpItem(Some(<<"1", "0", "0">>))>>),
             Some(<<MpItem("mp", Some(<<"2", "0", "0">>))>>),
             Some(<<HpItem(Some(<<"+", "7">>)), [marks |-> {}, span |-> None],
                    MpItem("gp", Some(<<"0", "4", "0", "0">>))>>),
             Some(<<MpItem("cp", Some(<<"4", "2", "9", "4", "9", "6", "7", "2", "9", "5">>)), HpItem(Some(<<"1", "0", "0">>))>>),
             Some(<<HpItem(Some(<<"1", ",", "0", "0", "0">>)), MpItem("mp", Some(<<"2", "0", "0">>))>>),
             Some(<<HpItem(Some(<<"1", "0", "0">>)), MpItem("mp", Some(<<>>))>>),
             Some(<<HpItem(Some(<<"4", "2", "9", "4", "9", "6", "7", "2", "9", "6">>)), MpItem("mp", Some(<<"2", "0", "0">>))>>),
             Some(<<HpItem(None), MpItem("mp", Some(<<"2", "0", "0">>))>>)}
      [] part = "freecompany" -> {Some(<<"F", "r", "e", "e", " ", "C", "o", "m", "p", "a", "n", "y", "F", "o", "o">>), Some(<<"F", "o", "o">>)}
      [] part = "title" -> {Some(<<"S", "i", "r">>)}
      [] part = "name" -> {None}
      [] part = "nameday" -> {None}
      [] part = "attrs" ->
            {None, Some(<<>>),
             Some(<<Row(Some(<<"S", "t", "r">>), Some(<<"1", "0">>)), Row(Some(<<"S", "t", "r">>), Some(<<"1", "2">>))>>),
             Some(<<Row(None, Some(<<"1", "0">>))>>),
             Some(<<Row(Some(<<"S", "t", "r">>), None)>>),
             Some(<<Row(Some(<<"S", "t", "r">>), Some(<<"t", "e", "n">>))>>),
             Some(<<Row(Some(<<"S", "t", "r">>), Some(<<"6", "5", "5", "3", "6">>))>>)}
      [] part = "gear" ->
            {[c \in {} |-> None],
             OneSlot(GlamourGearNode),
             OneSlot([GoodGearNode EXCEPT !.empty = TRUE, !.link = None]),
             [c \in {"icon-c--2", "icon-c--glasses"} |->
                 IF c = "icon-c--2" THEN GoodGearNode
                 ELSE [GoodGearNode EXCEPT !.txt = None]],
             [c \in {"icon-c--5"} |-> [GoodGearNode EXCEPT !.link = None]],
             OneSlot([GoodGearNode EXCEPT !.link = None]),
             OneSlot([GoodGearNode EXCEPT !.link = Some([href |-> None])]),
             OneSlot([GoodGearNode EXCEPT !.link = Some([href |-> Some(<<"/", "l", "/", "p", "/", "d", "b", "/", "2", "f", "4", "/">>)])]),
             OneSlot([GoodGearNode EXCEPT
                          !.link = Some([href |-> Some(<<"/", "l", "/", "p", "/", "d", "b", "/", "i", "t", "e", "m", "/", "x", "/", "2", "f", "4", "/">>)])]),
             OneSlot([GoodGearNode EXCEPT !.txt = Some([name |-> None, mirage |-> None])]),
             OneSlot(Mirage(None)),
             OneSlot(Mirage(Some([href |-> None]))),
             OneSlot(Mirage(Some([href |-> Some(<<"9", "a">>)])))}
      [] part \in {"face", "portrait"} -> {None, Some([src |-> None])}
      [] part = "classes" ->
            {<<>>,
             <<<<ClassItem(Some(<<"G", "l", "a", "d", "i", "a", "t", "o", "r">>), Some(<<"3", "0">>), Some(<<"1", ",", "2", "3", "4", " ", "/", " ", "2", ",", "0", "0", "0">>)),
                 ClassItem(Some(<<"M", "a", "c", "h", "i", "n", "i", "s", "t">>), Some(<<"-">>), None)>>>>,
             <<<<ClassItem(None, Some(<<"3", "0">>), Some(<<"1", ",", "2", "3", "4", " ", "/", " ", "2", ",", "0", "0", "0">>))>>>>,
             <<<<ClassItem(Some(<<"G", "l", "a", "d", "i", "a", "t", "o", "r">>), Some(<<"3", "O">>), Some(<<"1", ",", "2", "3", "4", " ", "/", " ", "2", ",", "0", "0", "0">>))>>>>,
             <<<<ClassItem(Some(<<"G", "l", "a", "d", "i", "a", "t", "o", "r">>), Some(<<"3", "0">>), Some(<<"1", ",", "2", "3", "4">>))>>>>}

\* the pages with one part replaced
WithPart(pages, part, v) ==
    CASE part = "main" -> [pages EXCEPT !.main = v]
      [] part = "class_job" -> [pages EXCEPT !.class_job = v]
      [] part = "classes" -> [pages EXCEPT !.class_job = Some(v)]
      [] OTHER -> [pages EXCEPT !.main = Some([Unwrap(@) EXCEPT ![part] = v])]

\* the number of parts the site replaces
MaxReplaced == 2

ProfileInit ==
    /\ pdoc = [next |-> 1, replaced |-> 0, pages |-> GoodPages, accepted |-> TRUE]
    /\ presult = Pending

\* the site serves something else for part i of the pages
ServePart(i, v) ==
    /\ presult.st = "Pending"
    /\ pdoc.next <= i
    /\ pdoc.accepted
    /\ pdoc.replaced < MaxReplaced
    /\ pdoc' = [next |-> i + 1, replaced |-> pdoc.replaced + 1,
                pages |-> WithPart(pdoc.pages, Parts[i], v),
                accepted |-> IsOk(Get(<<"1">>, WithPart(pdoc.pages, Parts[i], v)))]
    /\ UNCHANGED <<presult, notProfileVars>>

\* a caller calls Profile::get
ProfileGet(user_id) ==
    /\ presult.st = "Pending"
    /\ presult' = Get(user_id, pdoc.pages)
    /\ UNCHANGED <<pdoc, notProfileVars>>

ProfileNext ==
    \/ \E i \in DOMAIN Parts : \E v \in PartInputs(Parts[i]) : ServePart(i, v)
    \/ \E user_id \in UserIds : ProfileGet(user_id)

(***************************************************************************)
(* Profile::parse_classes on a class listing built item by item            *)
(***************************************************************************)
MaxItems == 3        \* li items of a class listing
MaxBlocks == 5       \* .character__content blocks of a class listing

\* the li items a class listing is made of
ClassItems ==
    {ClassItem(Some(<<"P", "a", "l", "a", "d", "i", "n">>), Some(<<"-">>), None),
     ClassItem(Some(<<"P", "a", "l", "a", "d", "i", "n">>), Some(<<"5", "0">>), Some(<<"-", "-", " ", "/", " ", "-", "-">>)),
     ClassItem(Some(<<"P", "a", "l", "a", "d", "i", "n", " ", "/", " ", "G", "l", "a", "d", "i", "a", "t", "o", "r">>), Some(<<"6", "0">>), Some(<<"1", ",", "2", "3", "4", " ", "/", " ", "2", ",", "0", "0", "0">>)),
     ClassItem(Some(<<"G", "l", "a", "d", "i", "a", "t", "o", "r">>), Some(<<"-">>), Some(<<"-", "-", " ", "/", " ", "-", "-">>)),
     ClassItem(Some(<<"G", "l", "a", "d", "i", "a", "t", "o", "r">>), Some(<<"3", "0">>), Some(<<"1", ",", "2", "3", "4", " ", "/", " ", "2", ",", "0", "0", "0">>)),
     ClassItem(Some(<<"M", "a", "c", "h", "i", "n", "i", "s", "t">>), Some(<<"3", "0">>), Some(<<"0", " ", "/", " ", "-", "-">>)),
     ClassItem(None, Some(<<"3", "0">>), Some(<<"1", ",", "2", "3", "4", " ", "/", " ", "2", ",", "0", "0", "0">>)),
     ClassItem(Some(<<"P", "a", "l", "a", "d", "i", "n">>), None, Some(<<"1", ",", "2", "3", "4", " ", "/", " ", "2", ",", "0", "0", "0">>)),
     ClassItem(Some(<<"P", "a", "l", "a", "d", "i", "n">>), Some(<<"5", "0">>), None),
     ClassItem(Some(<<"P", "a", "l", "a", "d", "i", "n">>), Some(<<"5", "0">>), Some(<<"1", ",", "2", "3", "4">>)),
     ClassItem(Some(<<"P", "a", "l", "a", "d", "i", "n">>), Some(<<"5", "O">>), Some(<<"1", ",", "2", "3", "4", " ", "/", " ", "2", ",", "0", "0", "0">>)),
     ClassItem(Some(<<"P", "a", "l", "a", "d", "i", "n">>), Some(<<"5", "0">>), Some(<<"1", ".", "2", "3", "4", " ", "/", " ", "2", ",", "0", "0", "0">>)),
     ClassItem(Some(<<"P", "a", "l", "a", "d", "i", "n">>), Some(<<"5", "0">>), Some(<<"1", ",", "2", "3", "4", " ", "/", " ", "-">>)),
     ClassItem(Some(<<"P", "a", "l", "a", "d", "i", "n">>), Some(<<"5", "0">>), Some(<<"1", ",", "2", "3", "4", "/", "2", ",", "0", "0", "0">>)),
     ClassItem(Some(<<"K", "n", "i", "g", "h", "t">>), Some(<<"5", "0">>), Some(<<"-", "-", " ", "/", " ", "-", "-">>))}

ClassInit ==
    /\ cdoc = <<>>
    /\ cresult = Pending

NumItems(doc) == Len(Flatten(doc))

\* the listing gets one more (empty) content block
AddBlock ==
    /\ cresult.st = "Pending"
    /\ Len(cdoc) < MaxBlocks
    /\ NumItems(cdoc) = 0
    /\ cdoc' = Append(cdoc, <<>>)
    /\ UNCHANGED <<cresult, notClassVars>>

\* the last content block of the listing gets one more item
AddItem(item) ==
    /\ cresult.st = "Pending"
    /\ cdoc # <<>>
    /\ NumItems(cdoc) < MaxItems
    /\ IsOk(ParseClasses(cdoc))
    /\ cdoc' = [cdoc EXCEPT ![Len(cdoc)] = Append(@, item)]
    /\ UNCHANGED <<cresult, notClassVars>>

\* Profile::get calls parse_classes on the listing
CallParseClasses ==
    /\ cresult.st = "Pending"
    /\ cresult' = ParseClasses(cdoc)
    /\ UNCHANGED <<cdoc, notClassVars>>

ClassNext ==
    \/ AddBlock
    \/ \E item \in ClassItems : AddItem(item)
    \/ CallParseClasses

(***************************************************************************)
(* Specifications                                                          *)
(***************************************************************************)
DomainInit == dinput = None /\ dresult = Pending

\* a fresh builder, a site with an empty results page and well-formed pages,
\* and nothing called yet
Init == BuilderInit /\ SiteInit /\ ExecInit /\ DomainInit /\ ProfileInit /\ ClassInit

\* the setters of a builder chain, ended by send or send_light
SpecBuilderNext ==
    \/ \E d \in Domain : SetDomain(d)
    \/ \E n \in Characters : SetCharacter(n)
    \/ \E dc \in Datacenters : SetDatacenter(dc)
    \/ \E s \in Servers : SetServer(s)
    \/ \E l \in LangInputs : SetLang(l)
    \/ \E g \in GCInputs : SetGrandCompany(g)
    \/ SendLight
    \/ Send
SpecBuilder == Init /\ [][SpecBuilderNext]_vars

\* send and send_light of a fresh builder, on the pages of the site
SpecSendNext ==
    \/ \E e \in Entries : ListEntry(e)
    \/ \E id \in UserIds, pages \in ServedPages : Serve(id, pages)
    \/ SendLight
    \/ Send
SpecSend == Init /\ [][SpecSendNext]_vars

\* the Domain codec
SpecDomain == Init /\ [][DomainNext]_vars

\* Profile::get
SpecProfile == Init /\ [][ProfileNext]_vars

\* Profile::parse_classes
SpecClasses == Init /\ [][ClassNext]_vars

(***************************************************************************)
(* Properties                                                              *)
(***************************************************************************)
\* the most recent of the server / datacenter calls of the chain
LastWorld == hist.worlds[Len(hist.worlds)]

\* C1: after any sequence of setter calls the criteria never hold both a
\* server and a datacenter: after server(x) they hold server = Some(x) and
\* datacenter = None, after datacenter(y) datacenter = Some(y) and
\* server = None, whatever was called in between on the other setters.
C1_ServerDatacenterExclusive ==
    /\ ~(IsSome(criteria.server) /\ IsSome(criteria.datacenter))
    /\ (hist.worlds = <<>>) => (criteria.server = None /\ criteria.datacenter = None)
    /\ (hist.worlds # <<>> /\ LastWorld[1] = "server") =>
           (criteria.server = Some(LastWorld[2]) /\ criteria.datacenter = None)
    /\ (hist.worlds # <<>> /\ LastWorld[1] = "datacenter") =>
           (criteria.datacenter = Some(LastWorld[2]) /\ criteria.server = None)

\* C1, its case: server(x) was called after datacenter(y), and the criteria
\* hold the server alone
C1_ServerAfterDatacenter ==
    /\ Len(hist.worlds) >= 2
    /\ hist.worlds[Len(hist.worlds) - 1][1] = "datacenter"
    /\ LastWorld[1] = "server"
    /\ criteria.server = Some(LastWorld[2])
    /\ criteria.datacenter = None

\* the entry nodes of a results page that LightProfile::create_from decodes
Decoding(pg) == {i \in DOMAIN pg : LightCreateFrom(pg[i]).st = "Ok"}

\* the k-th least element of a set of numbers
Nth(S, k) == CHOOSE i \in S : Cardinality({j \in S : j <= i}) = k

\* C2: once the search request succeeded, send_light returns Ok with exactly
\* one LightProfile per entry node that create_from decodes, in document
\* order, and nothing for an entry node whose decode fails.
C2_SendLightDropsMalformed ==
    (request.st = "Ok" /\ request.by = "send_light") =>
        /\ sent.st = "Ok"
        /\ Len(sent.val) = Cardinality(Decoding(page))
        /\ \A k \in DOMAIN sent.val :
              sent.val[k] = LightCreateFrom(page[Nth(Decoding(page), k)]).val

\* C2, its case: send_light ran on a page of two entries of which the first
\* is malformed, and returned the one profile of the second
C2_MalformedEntryDropped ==
    /\ request.st = "Ok"
    /\ request.by = "send_light"
    /\ Len(page) = 2
    /\ Decoding(page) = {2}
    /\ sent.st = "Ok"
    /\ Len(sent.val) = 1

\* what Profile::get gives for each entry link of the page ("None" for a
\* link without a usable id)
LinkGets(pg, st) ==
    [k \in DOMAIN EntryLinks(pg) |-> GetOfId(LinkId(EntryLinks(pg)[k]), st)]

\* the entry links whose Profile::get succeeds
Fetched(pg, st) == {k \in DOMAIN LinkGets(pg, st) : LinkGets(pg, st)[k].st = "Ok"}

\* C3: once the search request succeeded, send returns Ok with a Profile for
\* exactly the entry links whose id parses and whose Profile::get succeeds;
\* a failure for one identifier does not keep the others from being
\* processed.
C3_SendSkipsFailures ==
    (request.st = "Ok" /\ request.by = "send") =>
        /\ sent.st = "Ok"
        /\ Len(sent.val) = Cardinality(Fetched(page, site))
        /\ \A k \in DOMAIN sent.val :
              sent.val[k] = LinkGets(page, site)[Nth(Fetched(page, site), k)].val

\* C4: after parse_classes has processed a class listing, every upgraded job
\* whose entry holds a ClassInfo has a paired base vocation whose entry
\* holds the identical ClassInfo, so that Profile::level returns the same
\* level for both.
C4_UpgradedAndBaseAgree ==
    (cresult.st = "Ok") =>
        \A u \in Upgraded :
            IsSome(ClassInfoOf(cresult.val, u)) =>
                /\ ClassInfoOf(cresult.val, BaseOf(u)) = ClassInfoOf(cresult.val, u)
                /\ Level(cresult.val, BaseOf(u)) = Level(cresult.val, u)

\* both documents of the pages were fetched
Loaded(pages) == IsSome(pages.main) /\ IsSome(pages.class_job)

\* every required field of the pages decodes
RequiredDecode(pages) ==
    /\ Loaded(pages)
    /\ ParseCharInfo(Unwrap(pages.main)).st = "Ok"
    /\ ParseHomeInfo(Unwrap(pages.main)).st = "Ok"
    /\ ParseCharParam(Unwrap(pages.main)).st = "Ok"
    /\ ParseName(Unwrap(pages.main)).st = "Ok"
    /\ ParseNameday(Unwrap(pages.main)).st = "Ok"
    /\ ParseGuardian(Unwrap(pages.main)).st = "Ok"
    /\ ParseCityState(Unwrap(pages.main)).st = "Ok"
    /\ ParseAttributes(Unwrap(pages.main)).st = "Ok"
    /\ ParseGear(Unwrap(pages.main)).st = "Ok"
    /\ ParseImageUrl(Unwrap(pages.main).face, "face").st = "Ok"
    /\ ParseImageUrl(Unwrap(pages.main).portrait, "portrait").st = "Ok"
    /\ ParseClasses(Unwrap(pages.class_job)).st = "Ok"

\* C5: Profile::get returns a Profile when both fetches and every required
\* field decode succeed, with None for an absent title or free company, and
\* returns an error whenever one of them fails.
C5_GetFailFast ==
    (presult.st # "Pending") =>
        IF RequiredDecode(pdoc.pages)
        THEN /\ presult.st = "Ok"
             /\ (presult.val.title = None) <=> (Unwrap(pdoc.pages.main).title = None)
             /\ (presult.val.free_company = None)
                    <=> (Unwrap(pdoc.pages.main).freecompany = None)
        ELSE presult.st = "Err"

\* C6: every failure a decoder returns for the content of a document is a
\* NodeNotFound or an InvalidData; a numeric text that does not parse is an
\* InvalidData.
C6_FailureKinds ==
    (presult.st = "Err" /\ presult.kind # "Transport") =>
        presult.kind \in {"NodeNotFound", "InvalidData"}

\* the query terms of a URL: what follows the "?", split at each "&"
QueryTerms(url) ==
    Split(SubSeq(url, IndexOf(url, <<"?">>) + 1, Len(url)), <<"&">>)

\* a query term for the key worldname
IsWorldNameTerm(term) ==
    Len(term) >= Len(<<"w", "o", "r", "l", "d", "n", "a", "m", "e", "=">>) /\ SubSeq(term, 1, Len(<<"w", "o", "r", "l", "d", "n", "a", "m", "e", "=">>)) = <<"w", "o", "r", "l", "d", "n", "a", "m", "e", "=">>

\* the world-name query terms that the server / datacenter calls of the
\* chain ask for: that of the most recent call, none without a call
AskedWorldTerms ==
    IF hist.worlds = <<>> THEN <<>>
    ELSE IF LastWorld[1] = "datacenter" THEN <<<<"w", "o", "r", "l", "d", "n", "a", "m", "e", "=", "_", "d", "c", "_">> \o LastWorld[2]>>
    ELSE <<<<"w", "o", "r", "l", "d", "n", "a", "m", "e", "=">> \o LastWorld[2]>>

\* C7: the URL requested holds at most one world-name query term:
\* worldname=_dc_<datacenter> when the most recent of the server /
\* datacenter calls set a datacenter, worldname=<server> when it set a
\* server, and none when neither was called.
C7_OneWorldTerm ==
    (request.st # "Pending") =>
        SelectSeq(QueryTerms(request.url), IsWorldNameTerm) = AskedWorldTerms

\* the five codes of the Domain codec
DomainCodes == {<<"j", "p">>, <<"n", "a">>, <<"e", "u">>, <<"f", "r">>, <<"d", "e">>}

\* C8: the Domain codec round-trips and is closed: from_str(d.to_string())
\* is Ok(d) for each of the five values, their codes are jp, na, eu, fr and
\* de and pairwise distinct, and from_str of any other string is a
\* DomainParseError.
C8_DomainCodec ==
    /\ (dresult.st = "Encoded") => (dresult.val \in DomainCodes)
    /\ (dresult.st = "RoundTrip") => (dresult.val = Ok(Unwrap(dinput)))
    /\ (dresult.st = "Decoded") =>
          IF Unwrap(dinput) \in DomainCodes THEN dresult.val.st = "Ok"
          ELSE dresult.val.st = "Err" /\ dresult.val.kind = "DomainParseError"
    /\ \A d1, d2 \in Domain : (DomainToString(d1) = DomainToString(d2)) => (d1 = d2)

\* C8, its case: France was encoded and its code decoded back to France
C8_FranceRoundTrip ==
    /\ dresult.st = "RoundTrip"
    /\ dinput = Some("France")
    /\ dresult.val = Ok("France")

\* the items parse_classes reads: those of the first TakeBlocks blocks
Listed(doc) ==
    Flatten(SubSeq(doc, 1, IF Len(doc) < TakeBlocks THEN Len(doc) ELSE TakeBlocks))

\* the places in the listing of the items for a class
ItemsOf(doc, class) ==
    {i \in DOMAIN Listed(doc) :
        /\ IsSome(Listed(doc)[i].name)
        /\ ClassTypeFromStr(Split(Unwrap(Listed(doc)[i].name), <<" ", "/", " ">>)[1]) = Ok(class)}

\* C9: when a listing holds one item for a base vocation, with a numeric
\* level, and the paired upgraded job has no item or only items of level
\* "-", the base vocation's entry after parse_classes is the ClassInfo of
\* its own item, wherever the items stand in the listing.
C9_BaseKeepsOwnInfo ==
    (cresult.st = "Ok") =>
        \A u \in Upgraded : \A i \in ItemsOf(cdoc, BaseOf(u)) :
            ( /\ ItemsOf(cdoc, BaseOf(u)) = {i}
              /\ Listed(cdoc)[i].level # Some(<<"-">>)
              /\ \A j \in ItemsOf(cdoc, u) : Listed(cdoc)[j].level = Some(<<"-">>) )
            => (ClassesGet(cresult.val, BaseOf(u)) = ParseClassInfo(Listed(cdoc)[i]).val)

\* C10: get, having decoded the character info, returns an error when the
\* first NBSP-delimited group of the world text holds fewer than two
\* tokens: decoding the home info fails with an error result.
C10_FewTokensIsError ==
    ( /\ presult.st # "Pending"
      /\ Loaded(pdoc.pages)
      /\ ParseCharInfo(Unwrap(pdoc.pages.main)).st = "Ok"
      /\ IsSome(Unwrap(pdoc.pages.main).world)
      /\ Len(HomeInfoTokens(Unwrap(Unwrap(pdoc.pages.main).world))) < 2 )
    => (presult.st = "Err")

\* the tokens parse_char_info reads off the main page that get decoded
CharTokens == CharInfoTokens(Unwrap(pdoc.pages.main).block_names[1])

\* get stopped at the character info
CharInfoFailed ==
    /\ presult.st = "Err"
    /\ presult.kind = "InvalidData"
    /\ presult.what \in {"character block name", "Race", "Clan", "Gender"}

\* C11: parse_char_info accepts exactly 3 or 4 tokens: 3 tokens are decoded
\* as race, clan and gender; of 4 tokens the first two are ignored, the race
\* is Au Ra and tokens 2 and 3 are decoded as clan and gender; any other
\* number of tokens fails with InvalidData.
C11_CharInfoTokens ==
    ( /\ presult.st # "Pending"
      /\ Loaded(pdoc.pages)
      /\ Unwrap(pdoc.pages.main).block_names # <<>> ) =>
        /\ (Len(CharTokens) \notin {3, 4}) =>
              ( /\ presult.st = "Err"
                /\ presult.kind = "InvalidData"
                /\ presult.what = "character block name" )
        /\ (Len(CharTokens) = 3) =>
              /\ (presult.st = "Ok") =>
                    /\ presult.val.race = CharTokens[1]
                    /\ presult.val.clan = CharTokens[2]
                    /\ presult.val.gender = CharTokens[3]
              /\ ( /\ CharTokens[1] \in RaceNames
                   /\ CharTokens[2] \in ClanNames
                   /\ CharTokens[3] \in GenderNames ) <=> ~CharInfoFailed
        /\ (Len(CharTokens) = 4) =>
              /\ (presult.st = "Ok") =>
                    /\ presult.val.race = <<"A", "u", " ", "R", "a">>
                    /\ presult.val.clan = CharTokens[3]
                    /\ presult.val.gender = CharTokens[4]
              /\ (CharTokens[3] \in ClanNames /\ CharTokens[4] \in GenderNames)
                    <=> ~CharInfoFailed

\* C11, its case: get decoded a block of 4 tokens whose first two are not
\* the words of Au Ra, and returned a Profile of race Au Ra
C11_FourTokensDecoded ==
    /\ presult.st = "Ok"
    /\ Len(CharTokens) = 4
    /\ CharTokens[1] # <<"A", "u">>
    /\ presult.val.race = <<"A", "u", " ", "R", "a">>
    /\ presult.val.clan = CharTokens[3]

\* get decoded everything it reads before the gear
GearReached(pages) ==
    /\ Loaded(pages)
    /\ ParseCharInfo(Unwrap(pages.main)).st = "Ok"
    /\ ParseHomeInfo(Unwrap(pages.main)).st = "Ok"
    /\ ParseCharParam(Unwrap(pages.main)).st = "Ok"
    /\ ParseName(Unwrap(pages.main)).st = "Ok"
    /\ ParseNameday(Unwrap(pages.main)).st = "Ok"
    /\ ParseGuardian(Unwrap(pages.main)).st = "Ok"
    /\ ParseCityState(Unwrap(pages.main)).st = "Ok"
    /\ ParseAttributes(Unwrap(pages.main)).st = "Ok"

\* the main page holds a primary weapon node with a link and a text node
HasWeaponLink(pages) ==
    /\ "icon-c--0" \in DOMAIN Unwrap(pages.main).gear
    /\ ~Unwrap(pages.main).gear["icon-c--0"].empty
    /\ IsSome(Unwrap(pages.main).gear["icon-c--0"].link)
    /\ IsSome(Unwrap(pages.main).gear["icon-c--0"].txt)

\* the reference of the primary weapon's link
WeaponHref == Unwrap(Unwrap(pdoc.pages.main).gear["icon-c--0"].link).href

\* get failed with the given InvalidData
FailedInvalid(what) ==
    /\ presult.st = "Err"
    /\ presult.kind = "InvalidData"
    /\ presult.what = what

\* the glamour button of the primary weapon, None without one
WeaponGlamour ==
    IF Unwrap(Unwrap(pdoc.pages.main).gear["icon-c--0"].txt).mirage = None THEN None
    ELSE Unwrap(Unwrap(Unwrap(pdoc.pages.main).gear["icon-c--0"].txt).mirage).btn

\* what get answers for a reference of a gear link that parse_gear_link
\* refuses; TRUE for one it takes
RefusedLink(href) ==
    IF href = None THEN FailedInvalid("missing gear link")
    ELSE Len(Split(Unwrap(href), <<"/">>)) # 7 => FailedInvalid("invalid gear link")

\* parse_gear_link takes the reference
TakenLink(href) == href # None /\ Len(Split(Unwrap(href), <<"/">>)) = 7

\* C12: parse_gear_link returns the segment at index 5 of a reference that
\* splits on '/' into exactly 7 segments, and fails with InvalidData for
\* every other number of segments and for an absent reference.
C12_GearLinkSegments ==
    ( /\ presult.st # "Pending"
      /\ GearReached(pdoc.pages)
      /\ HasWeaponLink(pdoc.pages) ) =>
        /\ RefusedLink(WeaponHref)
        /\ ( /\ TakenLink(WeaponHref)
             /\ IsSome(Unwrap(Unwrap(pdoc.pages.main).gear["icon-c--0"].txt).name)
             /\ IsSome(WeaponGlamour) ) => RefusedLink(Unwrap(WeaponGlamour).href)
        /\ ( /\ TakenLink(WeaponHref)
             /\ IsSome(WeaponGlamour) => TakenLink(Unwrap(WeaponGlamour).href) ) =>
                 /\ ~FailedInvalid("missing gear link")
                 /\ ~FailedInvalid("invalid gear link")
        /\ (presult.st = "Ok") =>
             /\ TakenLink(WeaponHref)
             /\ presult.val.gear["PrimaryWeapon"].gear.lodestone_id
                    = Split(Unwrap(WeaponHref), <<"/">>)[6]
             /\ IsSome(WeaponGlamour) =>
                  /\ TakenLink(Unwrap(WeaponGlamour).href)
                  /\ Unwrap(presult.val.gear["PrimaryWeapon"].glamour).lodestone_id
                         = Split(Unwrap(Unwrap(WeaponGlamour).href), <<"/">>)[6]

\* C12, its case: get decoded a weapon link of 7 segments and returned its
\* segment of index 5 as the item's id
C12_SevenSegmentsDecoded ==
    /\ presult.st = "Ok"
    /\ HasWeaponLink(pdoc.pages)
    /\ WeaponHref # None
    /\ Len(Split(Unwrap(WeaponHref), <<"/">>)) = 7
    /\ presult.val.gear["PrimaryWeapon"].gear.lodestone_id = <<"2", "f", "4">>

\* the item parse_classes read last
LastItem == Listed(cdoc)[Len(Listed(cdoc))]

\* the last item has its three nodes and a numeric level
HasNumericLevel ==
    /\ Listed(cdoc) # <<>>
    /\ IsSome(LastItem.name)
    /\ IsSome(LastItem.level)
    /\ IsSome(LastItem.exp)
    /\ ParseUnsigned(Unwrap(LastItem.level), U32Max).st = "Ok"

\* the components of the last item's experience text
XpParts == Split(Unwrap(LastItem.exp), <<" ", "/", " ">>)

\* a component without its thousands separators
NoCommas(c) == SelectSeq(c, LAMBDA ch : ch # ",")

\* a component is the placeholder or a number with thousands separators
WellFormedXp(c) ==
    \/ c = <<"-", "-">>
    \/ /\ NoCommas(c) # <<>>
       /\ \A i \in 1..Len(NoCommas(c)) : IsDigit(NoCommas(c)[i])
       /\ Len(StripZeros(NoCommas(c))) < Len(U64Max)

\* what a well-formed component stands for
XpOf(c) == IF c = <<"-", "-">> THEN None ELSE Some(StripZeros(NoCommas(c)))

\* parse_classes failed on the experience text's separator
ExpFailed ==
    /\ cresult.st = "Err"
    /\ cresult.kind = "InvalidData"
    /\ cresult.what = "character__job__exp"

\* the class the last item names
LastClass == ClassTypeFromStr(Split(Unwrap(LastItem.name), <<" ", "/", " ">>)[1])

\* C13: in parse_classes, for an item with a numeric level, the experience
\* text is split on " / " into the current and the max component; a component
\* "--" decodes to None, never to zero, and any other component to Some(n)
\* with the thousands separators removed; an experience text without " / "
\* fails with InvalidData.
C13_ExperienceDecoding ==
    (cresult.st # "Pending" /\ HasNumericLevel) =>
        /\ (Len(XpParts) < 2) <=> ExpFailed
        /\ (cresult.st = "Ok") =>
             /\ WellFormedXp(XpParts[1])
             /\ WellFormedXp(XpParts[2])
             /\ Unwrap(ClassesGet(cresult.val, LastClass.val)).current_xp = XpOf(XpParts[1])
             /\ Unwrap(ClassesGet(cresult.val, LastClass.val)).max_xp = XpOf(XpParts[2])
        /\ ( /\ Len(XpParts) >= 2
             /\ WellFormedXp(XpParts[1])
             /\ WellFormedXp(XpParts[2])
             /\ LastClass.st = "Ok" ) => cresult.st = "Ok"

\* C13, its case: parse_classes decoded "0 / --" as a current experience of
\* zero and no max experience
C13_ZeroAndPlaceholder ==
    /\ cresult.st = "Ok"
    /\ HasNumericLevel
    /\ XpParts = << <<"0">>, <<"-", "-">> >>
    /\ Unwrap(ClassesGet(cresult.val, "Machinist")).current_xp = Some(<<"0">>)
    /\ Unwrap(ClassesGet(cresult.val, "Machinist")).max_xp = None

\* the parts of an entry's world text
WorldParts(e) == Split(Unwrap(e.world), <<" ", "[">>)

\* the world text of an entry reads "<Server> [<Datacenter>]"
HomeReadable(e) ==
    /\ IsSome(e.world)
    /\ Len(WorldParts(e)) = 2
    /\ WorldParts(e)[1] \in ServerNames
    /\ TrimEndMatches(WorldParts(e)[2], "]") \in DatacenterNames

\* parse_home refuses the entry's world text for the number of its parts
HomeRefused(e) ==
    /\ LightParseHome(e).st = "Err"
    /\ LightParseHome(e).kind = "InvalidData"
    /\ LightParseHome(e).what = "entry__world"

\* C14: the home decode of an abbreviated record splits the world text on
\* " [" and succeeds only for exactly two parts, the first decoded as the
\* server and the second, without its trailing "]", as the datacenter; a
\* text without " [" or with more than one fails with InvalidData.
C14_LightHomeTwoParts ==
    (request.st = "Ok" /\ request.by = "send_light") =>
        /\ sent.st = "Ok"
        /\ Len(sent.val) <= Cardinality({i \in DOMAIN page : HomeReadable(page[i])})
        /\ \A k \in DOMAIN sent.val :
              /\ HomeReadable(page[Nth(Decoding(page), k)])
              /\ sent.val[k].server = WorldParts(page[Nth(Decoding(page), k)])[1]
              /\ sent.val[k].datacenter
                    = TrimEndMatches(WorldParts(page[Nth(Decoding(page), k)])[2], "]")
        /\ \A i \in DOMAIN page :
              /\ (IsSome(page[i].world) /\ Len(WorldParts(page[i])) # 2) <=> HomeRefused(page[i])
              /\ HomeReadable(page[i]) <=> (LightParseHome(page[i]).st = "Ok")

\* C14, its case: send_light read a page with a world text of three parts,
\* which it dropped, and one of two parts, which it decoded
C14_ThreePartsDropped ==
    /\ request.st = "Ok"
    /\ request.by = "send_light"
    /\ Len(page) = 2
    /\ IsSome(page[1].world)
    /\ Len(WorldParts(page[1])) = 3
    /\ sent.st = "Ok"
    /\ Len(sent.val) = 1
    /\ sent.val[1].server = <<"C", "e", "r", "b", "e", "r", "u", "s">>
    /\ sent.val[1].datacenter = <<"C", "h", "a", "o", "s">>

\* the step leaves every part of the criteria but those of `parts` as it is
OnlyChanges(parts) ==
    \A f \in DOMAIN criteria \ parts : criteria'[f] = criteria[f]

\* C15: each setter changes only its own part of the criteria: domain and
\* character overwrite only their own field, lang and grand_company only add
\* the given value to their own set (nothing changes for a value already
\* there), none of these four changes server or datacenter, and server and
\* datacenter change only the server/datacenter pair.
C15_SettersKeepOtherParts ==
    [][ /\ \A d \in Domain : SetDomain(d) =>
              (criteria'.domain = Some(d) /\ OnlyChanges({"domain"}))
        /\ \A n \in Characters : SetCharacter(n) =>
              (criteria'.character = Some(n) /\ OnlyChanges({"character"}))
        /\ \A l \in LangInputs : SetLang(l) =>
              /\ criteria'.lang = criteria.lang \cup {l}
              /\ OnlyChanges({"lang"})
              /\ (l \in criteria.lang) => (criteria' = criteria)
        /\ \A g \in GCInputs : SetGrandCompany(g) =>
              /\ criteria'.gc = criteria.gc \cup {g}
              /\ OnlyChanges({"gc"})
              /\ (g \in criteria.gc) => (criteria' = criteria)
        /\ \A s \in Servers : SetServer(s) => OnlyChanges({"server", "datacenter"})
        /\ \A dc \in Datacenters : SetDatacenter(dc) => OnlyChanges({"server", "datacenter"})
      ]_vars

\* C15, its case: four setter calls, one of them server, set the domain, the
\* character, a language and the server, and the criteria hold all four
C15_FourPartsSet ==
    /\ hist.calls = 4
    /\ Len(hist.worlds) = 1
    /\ LastWorld[1] = "server"
    /\ criteria.server = Some(LastWorld[2])
    /\ IsSome(criteria.domain)
    /\ IsSome(criteria.character)
    /\ Cardinality(criteria.lang) = 1
    /\ criteria.gc = {}

====
